---- MODULE Spec2Model ----
(***************************************************************************)
(* A model of graphsage/pytorch_models.py: MeanAggregator and GSSupervised *)
(* (construction, _sample, forward, train_step).                           *)
(*                                                                         *)
(* Tensors are modelled by their shape and by symbolic rows: a 2-d tensor  *)
(* is a record [rows |-> sequence of row terms, width |-> columns].  A row *)
(* term records which operation produced the row from which rows, so that  *)
(* row counts, widths, row grouping and data flow are what the code makes  *)
(* them; floating-point values are not modelled.                           *)
(***************************************************************************)
EXTENDS Integers, Sequences, FiniteSets, TLC

\* ------------------------------------------------------------------ bounds
MaxLayers == 2          \* layer_specs has 0..MaxLayers entries
MaxIds == 3             \* a query batch has 1..MaxIds ids
MaxTrainSteps == 1      \* train_step calls per behaviour

\* max_norm argument of clip_grad_norm
ClipNorm == 5

Nodes == {1, 2, 3}

\* the layer specs a model may be built from: n_samples, output_dim, activation
LayerSpecChoices ==
  { [n_samples |-> 2, output_dim |-> 4, activation |-> "relu"],
    [n_samples |-> 3, output_dim |-> 2, activation |-> "none"] }

InputDims == {8}
NumClasses == {3}

\* gradient norms the autodiff collaborator may produce
GradNorms == {3, 9}

\* the Feature Matrices and Adjacency Structures a caller may pass
FeatureMatrices ==
  { [n \in Nodes |-> [op |-> "feat", m |-> "F", node |-> n]],
    [n \in Nodes |-> [op |-> "feat", m |-> "G", node |-> n]] }

Adjacencies ==
  { [n \in Nodes |-> IF n = 1 THEN <<2, 3>> ELSE IF n = 2 THEN <<3>> ELSE <<1, 2>>],
    [n \in Nodes |-> IF n = 1 THEN <<1>> ELSE IF n = 2 THEN <<1, 3>> ELSE <<3, 2, 1>>] }

\* query batches: n consecutive node ids (cyclically) starting at node `start`
Batch(n, start) == [i \in 1..n |-> ((start + i - 2) % Cardinality(Nodes)) + 1]

IdBatches == { Batch(n, n) : n \in 1..MaxIds }

\* ------------------------------------------------------------- sequences
RECURSIVE SeqsUpTo(_, _)
SeqsUpTo(S, n) ==
  IF n = 0 THEN { <<>> }
  ELSE LET shorter == SeqsUpTo(S, n - 1)
       IN  shorter \cup { Append(s, e) : s \in { t \in shorter : Len(t) = n - 1 }, e \in S }

RECURSIVE Product(_)
Product(s) == IF s = <<>> THEN 1 ELSE Head(s) * Product(Tail(s))

RECURSIVE Sum(_)
Sum(s) == IF s = <<>> THEN 0 ELSE Head(s) + Sum(Tail(s))

RECURSIVE Flatten(_)
Flatten(ss) == IF ss = <<>> THEN <<>> ELSE Head(ss) \o Flatten(Tail(ss))

\* ---------------------------------------------------------------- tensors
Tensor(rows, width) == [rows |-> rows, width |-> width]
Size0(t) == Len(t.rows)
Size1(t) == t.width
Numel(t) == Size0(t) * Size1(t)

\* features[ids]: one row per id, in id order
Index(features, ids, width) == Tensor([i \in 1..Len(ids) |-> features[ids[i]]], width)

Ok(t) == [ok |-> TRUE, out |-> t]
Err(e) == [ok |-> FALSE, err |-> e]

\* torch.cat(xs, dim=1) on the widths
CatWidth(widths) == Sum(widths)

\* nn.Linear(in_features, out_features): size mismatch unless widths agree
LinearOk(in_features, t) == Size1(t) = in_features

\* --------------------------------------------------------- MeanAggregator
MeanAggregator(d, output_dim, activation) ==
  [input_dim |-> d, output_dim_ |-> output_dim, activation |-> activation]

\* the output_dim property: width of combine_fn([tmp, tmp]), tmp of shape (1, output_dim_)
MeanAggregator_output_dim(agg) == CatWidth(<<agg.output_dim_, agg.output_dim_>>)

\* faulty variant: the view takes as many whole groups as fit and drops the rest
ViewOk_Truncating(x, neibs) == Size0(x) * Size1(neibs) > 0

\* neibs.view(x.size(0), -1, neibs.size(1)): whether the -1 can be inferred
ViewOk(x, neibs) ==
  /\ Size0(x) * Size1(neibs) > 0
  /\ Numel(neibs) % (Size0(x) * Size1(neibs)) = 0

\* the inferred middle dimension of the view
ViewGroupSize(x, neibs) == Numel(neibs) \div (Size0(x) * Size1(neibs))

\* faulty variant: the rows are grouped as by view(-1, x.size(0), D), pooled over dim 0
ViewGroup_Strided(x, neibs, i) ==
  LET m == ViewGroupSize(x, neibs)
  IN  [j \in 1..m |-> (j - 1) * Size0(x) + i]

\* rows of neibs (row-major) that land in group i (1-based) of the view
ViewGroup(x, neibs, i) ==
  LET m == ViewGroupSize(x, neibs)
  IN  [j \in 1..m |-> (i - 1) * m + j]

MeanAggregator_forward(agg, layer, x, neibs) ==
  IF ~LinearOk(agg.input_dim, x) THEN Err("SizeMismatch")
  ELSE IF ~ViewOk(x, neibs) THEN Err("ShapeMismatch")
  ELSE IF ~LinearOk(agg.input_dim, neibs) THEN Err("SizeMismatch")
  ELSE Ok(Tensor(
         [i \in 1..Size0(x) |->
            [op |-> "agg", layer |-> layer, activation |-> agg.activation,
             x |-> x.rows[i],
             neibs |-> [j \in 1..ViewGroupSize(x, neibs) |->
                          neibs.rows[ViewGroup(x, neibs, i)[j]]]]],
         MeanAggregator_output_dim(agg)))

\* ---------------------------------------------------- GSSupervised.__init__
\* faulty variant: every sampler closed over the last spec's n_samples (late binding)
GSSupervised_sampler_fns_LateBinding(specs) ==
  [k \in 1..Len(specs) |-> specs[Len(specs)].n_samples]

\* self.sampler_fns: one partial per layer spec, closed over its n_samples
GSSupervised_sampler_fns(specs) ==
  [k \in 1..Len(specs) |-> specs[k].n_samples]

\* faulty variant: the nominal output_dim is handed on
NextInputDim_Nominal(agg) == agg.output_dim_

\* the width handed on after one aggregator has been built
NextInputDim(agg) == MeanAggregator_output_dim(agg)

RECURSIVE GSSupervised_agg_layers(_, _)
GSSupervised_agg_layers(d, specs) ==
  IF specs = <<>> THEN <<>>
  ELSE LET agg == MeanAggregator(d, Head(specs).output_dim, Head(specs).activation)
       IN  <<agg>> \o GSSupervised_agg_layers(NextInputDim(agg), Tail(specs))

\* input_dim as it stands after the construction loop
FinalInputDim(d, aggs) ==
  IF aggs = <<>> THEN d ELSE NextInputDim(aggs[Len(aggs)])

GSSupervised_fc(d, classes, aggs) ==
  [in_features |-> FinalInputDim(d, aggs), out_features |-> classes]

\* ------------------------------------------------------------------ state
VARIABLES
  input_dim,      \* constructor argument input_dim (also the Feature Matrix width)
  num_classes,    \* constructor argument num_classes
  layer_specs,    \* constructor argument layer_specs
  sampler_fns,    \* self.sampler_fns
  agg_layers,     \* self.agg_layers
  fc,             \* self.fc
  params,         \* version of the learnable parameters (self.parameters())
  grads,          \* the parameters' accumulated gradients
  optimizer,      \* number of updates self.optimizer has applied
  op,             \* the public operation running: "idle", "forward", "train_step"
  pc,             \* position inside the running operation
  ids,            \* argument ids of the call
  features,       \* argument features of the call
  adj,            \* argument adj of the call
  frontier,       \* the local ids of _sample
  all_feats,      \* the Feature Level List
  hop,            \* index of the next sampler_fn in _sample
  round,          \* index of the next child of agg_layers in forward
  preds,          \* train_step's preds
  loss,           \* train_step's loss
  ret,            \* what the last call returned or raised
  entry,          \* params, grads and optimizer as they were when the call began
  stages,         \* stages the running train_step has completed, in order
  sampler_calls,  \* sampler calls of the running forward, in order
  agg_calls,      \* aggregator calls of the running forward, in order
  lens,           \* Len(all_feats) after _sample and after every reduction round
  contract_ok,    \* every sampler output so far had length len(ids) * n_samples
  train_calls     \* train_step calls so far

model_vars == <<input_dim, num_classes, layer_specs, sampler_fns, agg_layers, fc>>
learn_vars == <<params, grads, optimizer>>
arg_vars == <<ids, features, adj>>
fwd_vars == <<frontier, all_feats, hop, round, sampler_calls, agg_calls, lens, contract_ok>>
train_vars == <<preds, loss, stages>>
vars == <<model_vars, learn_vars, arg_vars, fwd_vars, train_vars, op, pc, ret, entry,
          train_calls>>

NoTensor == Tensor(<<>>, 0)
\* what a call left for its caller: nothing yet, a value, or an exception
NoResult == [kind |-> "none"]
Return(v) == [kind |-> "value", out |-> v]
Raised(e) == [kind |-> "error", err |-> e]
NoLoss == [op |-> "none"]
NoGrads == [state |-> "none", norm |-> 0]

Init ==
  /\ input_dim \in InputDims
  /\ layer_specs \in SeqsUpTo(LayerSpecChoices, MaxLayers)
  /\ sampler_fns = GSSupervised_sampler_fns(layer_specs)
  /\ agg_layers = GSSupervised_agg_layers(input_dim, layer_specs)
  /\ num_classes \in NumClasses
  /\ fc = GSSupervised_fc(input_dim, num_classes, agg_layers)
  /\ params = 0
  /\ grads = NoGrads
  /\ optimizer = 0
  /\ op = "idle"
  /\ pc = "idle"
  /\ ids = <<>>
  /\ features = CHOOSE f \in FeatureMatrices : TRUE
  /\ adj = CHOOSE a \in Adjacencies : TRUE
  /\ frontier = <<>>
  /\ all_feats = <<>>
  /\ hop = 1
  /\ round = 1
  /\ preds = NoTensor
  /\ loss = NoLoss
  /\ ret = NoResult
  /\ entry = [params |-> 0, grads |-> NoGrads, optimizer |-> 0]
  /\ stages = <<>>
  /\ sampler_calls = <<>>
  /\ agg_calls = <<>>
  /\ lens = <<>>
  /\ contract_ok = TRUE
  /\ train_calls = 0

\* faulty variant: the exception is caught and handed back as the result
Raise_Swallowed(e) ==
  /\ ret' = [kind |-> "value", out |-> e]
  /\ op' = "idle"
  /\ pc' = "idle"

\* an exception leaves the operation: nothing catches it, nothing is undone
Raise(e) ==
  /\ ret' = Raised(e)
  /\ op' = "idle"
  /\ pc' = "idle"

\* ------------------------------------------------------------ call entry
Enter(name, first, i, f, a) ==
  /\ op = "idle"
  /\ op' = name
  /\ pc' = first
  /\ ids' = i
  /\ features' = f
  /\ adj' = a
  /\ frontier' = <<>>
  /\ all_feats' = <<>>
  /\ hop' = 1
  /\ round' = 1
  /\ preds' = NoTensor
  /\ loss' = NoLoss
  /\ ret' = NoResult
  /\ entry' = [params |-> params, grads |-> grads, optimizer |-> optimizer]
  /\ stages' = <<>>
  /\ sampler_calls' = <<>>
  /\ agg_calls' = <<>>
  /\ lens' = <<>>
  /\ contract_ok' = TRUE
  /\ UNCHANGED <<model_vars, learn_vars>>

CallForward ==
  /\ \E i \in IdBatches, f \in FeatureMatrices, a \in Adjacencies :
       Enter("forward", "forward", i, f, a)
  /\ UNCHANGED train_calls

CallTrainStep ==
  /\ train_calls < MaxTrainSteps
  /\ train_calls' = train_calls + 1
  /\ \E i \in IdBatches, f \in FeatureMatrices, a \in Adjacencies :
       Enter("train_step", "zero_grad", i, f, a)

\* ------------------------------------------------------- the sampler (injected)
\* n_samples neighbours of every id, contiguously and in input order, drawn
\* cyclically from the id's adjacency entry (with replacement when it is short)
Neighbors(i, a, n_samples) ==
  Flatten([x \in 1..Len(i) |->
             [j \in 1..n_samples |-> a[i[x]][((j - 1) % Len(a[i[x]])) + 1]]])

\* what a call of an injected sample_fn may do: return the neighbours, return
\* a sequence that breaks the output-length contract, or raise
sample_fn(i, a, n_samples) ==
  { Ok(Neighbors(i, a, n_samples)),
    Ok(SubSeq(Neighbors(i, a, n_samples), 1, Len(i) * n_samples - 1)),
    Err("SamplingFailure") }

\* --------------------------------------------------- GSSupervised._sample
\* faulty variant: the query rows of the Feature Matrix are normalized in place
ForwardBegin_InPlace ==
  /\ pc = "forward"
  /\ features' = [n \in Nodes |->
                    IF \E i \in 1..Len(ids) : ids[i] = n
                    THEN [op |-> "normalize", x |-> features[n]] ELSE features[n]]
  /\ all_feats' = <<Index(features', ids, input_dim)>>
  /\ frontier' = ids
  /\ hop' = 1
  /\ pc' = "sample"
  /\ stages' = IF op = "train_step" THEN Append(stages, "forward") ELSE stages
  /\ UNCHANGED <<model_vars, learn_vars, ids, adj, round, sampler_calls, agg_calls,
                 lens, contract_ok, preds, loss, op, ret, entry, train_calls>>

\* all_feats = [features[ids]]
ForwardBegin ==
  /\ pc = "forward"
  /\ all_feats' = <<Index(features, ids, input_dim)>>
  /\ frontier' = ids
  /\ hop' = 1
  /\ pc' = "sample"
  /\ stages' = IF op = "train_step" THEN Append(stages, "forward") ELSE stages
  /\ UNCHANGED <<model_vars, learn_vars, arg_vars, round, sampler_calls, agg_calls,
                 lens, contract_ok, preds, loss, op, ret, entry, train_calls>>

\* the level one hop appends to the list
SampleAppend(feats, level) == Append(feats, level)

\* one iteration of `for sampler_fn in self.sampler_fns`
SampleHop ==
  /\ pc = "sample"
  /\ hop <= Len(sampler_fns)
  /\ \E r \in sample_fn(frontier, adj, sampler_fns[hop]) :
       /\ sampler_calls' = Append(sampler_calls,
              [fn |-> hop, n_samples |-> sampler_fns[hop], ids |-> frontier,
               result |-> r])
       /\ IF r.ok
          THEN /\ frontier' = r.out
               /\ all_feats' = SampleAppend(all_feats, Index(features, r.out, input_dim))
               /\ hop' = hop + 1
               /\ contract_ok' = (contract_ok
                                   /\ Len(r.out) = Len(frontier) * sampler_fns[hop])
               /\ UNCHANGED <<op, pc, ret>>
          ELSE /\ Raise(r.err)
               /\ UNCHANGED <<frontier, all_feats, hop, contract_ok>>
  /\ UNCHANGED <<model_vars, learn_vars, arg_vars, round, agg_calls, lens,
                 train_vars, entry, train_calls>>

\* return all_feats
SampleReturn ==
  /\ pc = "sample"
  /\ hop > Len(sampler_fns)
  /\ pc' = "reduce"
  /\ round' = 1
  /\ lens' = <<Len(all_feats)>>
  /\ UNCHANGED <<model_vars, learn_vars, arg_vars, frontier, all_feats, hop,
                 sampler_calls, agg_calls, contract_ok, train_vars, op, ret, entry, train_calls>>

\* --------------------------------------------------- GSSupervised.forward
\* faulty variant: range(len(all_feats) - 2)
PairIndices_OffByOne(feats) == 1..(Len(feats) - 2)

\* range(len(all_feats) - 1), 1-based
PairIndices(feats) == 1..(Len(feats) - 1)

\* faulty variant: the stack is walked from its last layer
Child_Reversed(layers, r) == Len(layers) + 1 - r

\* index in self.agg_layers of the r-th module children() yields
Child(layers, r) == r

\* [agg_layer(all_feats[k], all_feats[k + 1]) for k in range(len(all_feats) - 1)]
RoundResults(agg, r, feats) ==
  [k \in PairIndices(feats) |-> MeanAggregator_forward(agg, r, feats[k], feats[k + 1])]

\* the first pair whose aggregation raises, 0 when none does
FirstFailure(results) ==
  IF \A k \in DOMAIN results : results[k].ok THEN 0
  ELSE CHOOSE k \in DOMAIN results :
         /\ ~results[k].ok
         /\ \A j \in DOMAIN results : j < k => results[j].ok

\* one iteration of `for agg_layer in self.agg_layers.children()`
ReductionRound ==
  /\ pc = "reduce"
  /\ round <= Len(agg_layers)
  /\ LET agg == Child(agg_layers, round)
         results == RoundResults(agg_layers[agg], round, all_feats)
         bad == FirstFailure(results)
         made == IF bad = 0 THEN Len(results) ELSE bad
     IN  /\ agg_calls' = agg_calls \o
                [k \in 1..made |-> [round |-> round, agg |-> agg, k |-> k]]
         /\ IF bad = 0
            THEN /\ all_feats' = [k \in DOMAIN results |-> results[k].out]
                 /\ round' = round + 1
                 /\ lens' = Append(lens, Len(results))
                 /\ UNCHANGED <<op, pc, ret>>
            ELSE /\ Raise(results[bad].err)
                 /\ UNCHANGED <<all_feats, round, lens>>
  /\ UNCHANGED <<model_vars, learn_vars, arg_vars, frontier, hop, sampler_calls,
                 contract_ok, train_vars, entry, train_calls>>

\* faulty variant: the embedding is not normalized
Normalize_Skip(row) == row

\* F.normalize(out, dim=1), row by row
Normalize(row) == [op |-> "normalize", x |-> row]
Linear(p, row) == [op |-> "fc", params |-> p, x |-> row]

\* self.fc(F.normalize(out, dim=1))
Classify(p, layer, out) ==
  IF ~LinearOk(layer.in_features, out) THEN Err("SizeMismatch")
  ELSE Ok(Tensor([i \in 1..Size0(out) |-> Linear(p, Normalize(out.rows[i]))],
                 layer.out_features))

\* the parameters forward reads
ForwardParams == params

\* assert len(all_feats) == 1 and the lines after it
ForwardFinish ==
  /\ pc = "reduce"
  /\ round > Len(agg_layers)
  /\ LET r == IF Len(all_feats) # 1 THEN Err("AssertionError")
              ELSE Classify(ForwardParams, fc, all_feats[1])
     IN  IF ~r.ok
         THEN /\ Raise(r.err)
              /\ UNCHANGED preds
         ELSE IF op = "train_step"
         THEN /\ preds' = r.out
              /\ pc' = "loss"
              /\ UNCHANGED <<op, ret>>
         ELSE /\ ret' = Return(r.out)
              /\ op' = "idle"
              /\ pc' = "idle"
              /\ UNCHANGED preds
  /\ UNCHANGED <<model_vars, learn_vars, arg_vars, fwd_vars, loss, stages, entry, train_calls>>

\* ------------------------------------------------- GSSupervised.train_step
\* zero_grad() zeroes the gradients that exist; a .grad that is still None stays None
ZeroGrad(g) == IF g.state = "none" THEN g ELSE [state |-> "zero", norm |-> 0]

\* self.optimizer.zero_grad()
TrainZeroGrad ==
  /\ pc = "zero_grad"
  /\ grads' = ZeroGrad(grads)
  /\ stages' = Append(stages, "zero_grad")
  /\ pc' = "forward"
  /\ UNCHANGED <<model_vars, params, optimizer, arg_vars, fwd_vars, preds, loss,
                 op, ret, entry, train_calls>>

\* loss = F.multilabel_soft_margin_loss(preds, labels)
TrainLoss ==
  /\ pc = "loss"
  /\ \E raises \in BOOLEAN :
       IF raises
       THEN /\ Raise("LossError")
            /\ UNCHANGED <<loss, stages>>
       ELSE /\ loss' = [op |-> "multilabel_soft_margin_loss", preds |-> preds]
            /\ stages' = Append(stages, "loss")
            /\ pc' = "backward"
            /\ UNCHANGED <<op, ret>>
  /\ UNCHANGED <<model_vars, learn_vars, arg_vars, fwd_vars, preds, entry, train_calls>>

\* loss.backward(): gradients are accumulated into the zeroed .grad fields
TrainBackward ==
  /\ pc = "backward"
  /\ \E raises \in BOOLEAN, n \in GradNorms :
       /\ grads' = IF raises THEN [state |-> "partial", norm |-> 0]
                   ELSE [state |-> "computed", norm |-> n]
       /\ IF raises
          THEN /\ Raise("AutogradError")
               /\ UNCHANGED stages
          ELSE /\ stages' = Append(stages, "backward")
               /\ pc' = "clip"
               /\ UNCHANGED <<op, ret>>
  /\ UNCHANGED <<model_vars, params, optimizer, arg_vars, fwd_vars, preds, loss, entry, train_calls>>

\* faulty variant: the norm is measured and nothing is scaled
ClippedNorm_NoClip(total_norm, max_norm) == total_norm

\* the global norm clip_grad_norm leaves
ClippedNorm(total_norm, max_norm) ==
  IF total_norm > max_norm THEN max_norm ELSE total_norm

\* torch.nn.utils.clip_grad_norm(self.parameters(), 5)
TrainClip ==
  /\ pc = "clip"
  /\ \E raises \in BOOLEAN :
       IF raises
       THEN /\ Raise("ClipError")
            /\ UNCHANGED <<grads, stages>>
       ELSE /\ grads' = [state |-> "clipped", norm |-> ClippedNorm(grads.norm, ClipNorm)]
            /\ stages' = Append(stages, "clip")
            /\ pc' = "step"
            /\ UNCHANGED <<op, ret>>
  /\ UNCHANGED <<model_vars, params, optimizer, arg_vars, fwd_vars, preds, loss, entry, train_calls>>

\* the parameters after one optimizer update
Updated(p) == p + 1

\* self.optimizer.step(): an update that raises part-way has already written
\* some of the parameters
TrainUpdate ==
  /\ pc = "step"
  /\ \E raises \in BOOLEAN, written \in BOOLEAN :
       IF raises
       THEN /\ params' = IF written THEN Updated(params) ELSE params
            /\ Raise("OptimizerError")
            /\ UNCHANGED <<optimizer, stages>>
       ELSE /\ written
            /\ params' = Updated(params)
            /\ optimizer' = optimizer + 1
            /\ stages' = Append(stages, "step")
            /\ pc' = "return"
            /\ UNCHANGED <<op, ret>>
  /\ UNCHANGED <<model_vars, grads, arg_vars, fwd_vars, preds, loss, entry, train_calls>>

\* what train_step hands back: the predictions of its forward pass and the loss
Returned(p, l) == [preds |-> p, loss |-> l]

\* return preds, loss.data[0]: indexing a 0-dim loss raises on builds where
\* the loss is a 0-dim tensor
TrainReturn ==
  /\ pc = "return"
  /\ \E raises \in BOOLEAN :
       IF raises
       THEN /\ Raise("IndexError")
            /\ UNCHANGED stages
       ELSE /\ ret' = Return(Returned(preds, loss))
            /\ op' = "idle"
            /\ pc' = "idle"
            /\ stages' = Append(stages, "return")
  /\ UNCHANGED <<model_vars, learn_vars, arg_vars, fwd_vars, preds, loss, entry, train_calls>>

Next ==
  \/ CallForward
  \/ CallTrainStep
  \/ ForwardBegin
  \/ SampleHop
  \/ SampleReturn
  \/ ReductionRound
  \/ ForwardFinish
  \/ TrainZeroGrad
  \/ TrainLoss
  \/ TrainBackward
  \/ TrainClip
  \/ TrainUpdate
  \/ TrainReturn

Spec == Init /\ [][Next]_vars

\* ================================================================== claims
NumLayers == Len(layer_specs)
ForwardReturned == op = "idle" /\ ret.kind = "value" /\ stages = <<>>
TrainReturned == op = "idle" /\ ret.kind = "value" /\ stages # <<>>
InReduction == pc = "reduce"

\* sample_count[1..k-1] multiplied: rows of level k per query id
Fanout(k) == Product([j \in 1..(k - 1) |-> layer_specs[j].n_samples])

\* C1: with samplers that meet the output-length contract, the Feature Level
\* List has L+1 levels right after _sample, every reduction round shortens it
\* by exactly one, one level is left after the last round, and the assertion
\* len(all_feats) == 1 never fails.
C1_LevelCount ==
  contract_ok =>
    /\ InReduction => Len(all_feats) = NumLayers + 2 - round
    /\ \A i \in 1..Len(lens) : lens[i] = NumLayers + 2 - i
    /\ (InReduction /\ round > Len(agg_layers)) => Len(all_feats) = 1
    /\ (ret.kind = "error" => ret.err # "AssertionError")
    /\ (ForwardReturned \/ TrainReturned) => Len(lens) = NumLayers + 1

C1_Witness ==
  /\ contract_ok
  /\ ForwardReturned
  /\ NumLayers = 2
  /\ lens = <<3, 2, 1>>

\* C2: with N query ids and sample counts s, level k has N * s[1] * ... *
\* s[k-1] rows after _sample and keeps that row count through every reduction
\* round in which it exists; forward returns N rows of num_classes columns.
C2_RowCounts ==
  contract_ok =>
    /\ (pc \in {"sample", "reduce"}) =>
         \A k \in 1..Len(all_feats) : Size0(all_feats[k]) = Len(ids) * Fanout(k)
    /\ ForwardReturned =>
         /\ Size0(ret.out) = Len(ids)
         /\ Size1(ret.out) = num_classes
    /\ (op = "train_step" /\ pc \in {"loss", "backward", "clip", "step", "return"}) =>
         /\ Size0(preds) = Len(ids)
         /\ Size1(preds) = num_classes

\* 3 query ids, sample counts [2,2], output dims [4,4], input_dim 8, 3 classes
C2_Witness ==
  /\ contract_ok
  /\ ForwardReturned
  /\ Len(ids) = 3
  /\ input_dim = 8
  /\ num_classes = 3
  /\ [k \in 1..NumLayers |-> layer_specs[k].n_samples] = <<2, 2>>
  /\ [k \in 1..NumLayers |-> layer_specs[k].output_dim] = <<4, 4>>
  /\ lens = <<3, 2, 1>>
  /\ Size0(ret.out) = 3
  /\ Size1(ret.out) = 3

\* C3: an aggregator's effective output width is twice its output_dim (the
\* default concatenation); that width, not the nominal output_dim, is the
\* input_dim of the next aggregator and, after the last layer, the input
\* width of self.fc; every level handed to an aggregator in a reduction round
\* has that aggregator's input width.
C3_Widths ==
  /\ Len(agg_layers) = NumLayers
  /\ \A k \in 1..NumLayers :
       /\ MeanAggregator_output_dim(agg_layers[k]) = 2 * layer_specs[k].output_dim
       /\ agg_layers[k].input_dim =
            IF k = 1 THEN input_dim ELSE 2 * layer_specs[k - 1].output_dim
  /\ fc.in_features =
       IF NumLayers = 0 THEN input_dim ELSE 2 * layer_specs[NumLayers].output_dim
  /\ (InReduction /\ round <= Len(agg_layers)) =>
       \A k \in 1..Len(all_feats) : Size1(all_feats[k]) = agg_layers[round].input_dim
  /\ (InReduction /\ round > Len(agg_layers)) =>
       \A k \in 1..Len(all_feats) : Size1(all_feats[k]) = fc.in_features
  /\ (ret.kind = "error" => ret.err # "SizeMismatch")

\* a second round whose aggregator's input width differs from the nominal
\* output_dim of the first
C3_Witness ==
  /\ InReduction
  /\ round = 2
  /\ NumLayers = 2
  /\ layer_specs[1].output_dim = 2
  /\ agg_layers[2].input_dim = 4
  /\ Size1(all_feats[1]) = 4

FullStages == <<"zero_grad", "forward", "loss", "backward", "clip", "step", "return">>

\* the logits classify(normalize(features[ids])) under parameters p
DirectLogits(p) ==
  Tensor([i \in 1..Len(ids) |->
            [op |-> "fc", params |-> p,
             x |-> [op |-> "normalize", x |-> features[ids[i]]]]],
         num_classes)

\* C4: with an empty layer_specs, forward calls no sampler and no aggregator,
\* the reduction loop does not run, the assertion holds, and the result is
\* classify(normalize(features[ids])), whatever adj is.
C4_NoLayers ==
  NumLayers = 0 =>
    /\ sampler_calls = <<>>
    /\ agg_calls = <<>>
    /\ lens \in {<<>>, <<1>>}
    /\ (stages = <<>> => ret.kind # "error")
    /\ (ret.kind = "error" => ret.err # "AssertionError")
    /\ ForwardReturned => ret.out = DirectLogits(params)
    /\ (op = "train_step" /\ pc = "loss") => preds = DirectLogits(params)

C4_Witness ==
  /\ NumLayers = 0
  /\ ForwardReturned
  /\ Len(ids) = 2
  /\ ret.out = DirectLogits(params)

\* C5: every successful train_step performs zero_grad, forward, loss,
\* backward, clip (global norm at most 5), one optimizer update, once each
\* and in that order; only the update changes the parameters; the returned
\* predictions are those of the forward pass under the pre-update parameters.
C5_StageOrder ==
  /\ Len(stages) <= Len(FullStages)
  /\ stages = SubSeq(FullStages, 1, Len(stages))
  /\ (op = "train_step" /\ pc \in {"zero_grad", "forward", "sample", "reduce",
                                    "loss", "backward", "clip", "step"}) =>
       /\ params = entry.params
       /\ optimizer = entry.optimizer
  /\ (op = "train_step" /\ pc \in {"step", "return"}) => grads.norm <= ClipNorm
  /\ (op = "train_step" /\ pc = "return") =>
       /\ params # entry.params
       /\ optimizer = entry.optimizer + 1
  /\ TrainReturned =>
       /\ stages = FullStages
       /\ grads.state = "clipped"
       /\ grads.norm <= ClipNorm
       /\ params # entry.params
       /\ optimizer = entry.optimizer + 1
       /\ \A i \in 1..Size0(ret.out.preds) :
            ret.out.preds.rows[i].params = entry.params
       /\ ret.out.loss.preds = ret.out.preds

\* a train_step that returned after its gradient norm had to be clipped
C5_Witness ==
  /\ TrainReturned
  /\ grads.norm = ClipNorm
  /\ NumLayers = 2
  /\ Size0(ret.out.preds) = 3

LearnState == [params |-> params, grads |-> grads, optimizer |-> optimizer]

\* C6 as stated: a failing forward or train_step leaves the model as it was
\* before the call, and a train_step that changed the parameters returns its
\* full result.
C6_NoPartialSuccess ==
  /\ ret.kind = "error" => (op = "idle" /\ LearnState = entry)
  /\ (op = "idle" /\ params # entry.params) => ret.kind = "value"

\* C6 as amended: every failure ends the call with the error as its outcome
\* and a value is returned only by a call that ran all its stages; a failed
\* forward leaves parameters, gradients and optimizer state as they were; a
\* train_step that fails before the update stage leaves the parameters and
\* the optimizer state as they were (its gradients may already be reset or
\* recomputed); a failure while extracting the scalar loss comes after the
\* update, so the parameters stay updated and no result is returned.
C6_FailureEffects ==
  /\ ret.kind = "error" => op = "idle"
  /\ ForwardReturned => Len(lens) = NumLayers + 1
  /\ TrainReturned => (stages = FullStages /\ params = entry.params + 1)
  /\ (ret.kind = "error" /\ stages = <<>>) => LearnState = entry
  /\ (ret.kind = "error" /\ stages # <<>>) =>
       /\ ret.err \notin {"OptimizerError", "IndexError"} =>
            (params = entry.params /\ optimizer = entry.optimizer)
       /\ ret.err = "IndexError" =>
            (params = entry.params + 1 /\ optimizer = entry.optimizer + 1)

\* a train_step that failed after its update: the parameters are changed and
\* the caller holds an error
C6_Witness ==
  /\ op = "idle"
  /\ ret.kind = "error"
  /\ ret.err = "IndexError"
  /\ stages = SubSeq(FullStages, 1, 6)
  /\ params = entry.params + 1

IsMultiple(a, n) == \E m \in 0..a : a = m * n

\* C7: an aggregation whose neighbor row count is not an exact multiple of
\* its self row count fails (nothing is truncated or padded); when it is a
\* multiple m, every neighbor row is used in exactly one of the N groups of m.
C7_ExactReshape ==
  [][ (pc = "reduce" /\ round <= Len(agg_layers)) =>
        LET bad == { k \in 1..(Len(all_feats) - 1) :
                       ~IsMultiple(Size0(all_feats[k + 1]), Size0(all_feats[k])) }
        IN  /\ bad # {} =>
                 /\ ret'.kind = "error"
                 /\ ret'.err = "ShapeMismatch"
                 /\ all_feats' = all_feats
            /\ round' = round + 1 =>
                 /\ bad = {}
                 /\ \A k \in 1..Len(all_feats') :
                      /\ Size0(all_feats'[k]) = Size0(all_feats[k])
                      /\ \A i \in 1..Size0(all_feats'[k]) :
                           Len(all_feats'[k].rows[i].neibs) * Size0(all_feats[k])
                             = Size0(all_feats[k + 1])
                      /\ Flatten([i \in 1..Size0(all_feats'[k]) |->
                                    all_feats'[k].rows[i].neibs])
                           = all_feats[k + 1].rows ]_vars

\* a reduction round that failed on a neighbor level that is no multiple
C7_Witness ==
  /\ ret.kind = "error"
  /\ ret.err = "ShapeMismatch"
  /\ ~contract_ok
  /\ pc = "idle"
  /\ \E k \in 1..(Len(all_feats) - 1) :
       ~IsMultiple(Size0(all_feats[k + 1]), Size0(all_feats[k]))

InForward ==
  \/ op = "forward"
  \/ op = "train_step" /\ pc \in {"forward", "sample", "reduce"}

\* C8: forward changes neither the learnable parameters, nor the gradients,
\* nor the optimizer state, nor the Feature Matrix, nor the Adjacency
\* Structure, nor the model's layers; the parameters change only in the
\* update stage of train_step.
C8_ForwardPure ==
  [][ /\ InForward => UNCHANGED <<learn_vars, features, adj, model_vars>>
      /\ params' # params => (op = "train_step" /\ pc = "step") ]_vars

\* a forward call that returned on a model whose parameters had been trained
C8_Witness ==
  /\ ForwardReturned
  /\ optimizer = 1
  /\ LearnState = entry
  /\ NumLayers = 2

\* the aggregator calls of the first n complete reduction rounds
ExpectedCalls(n) ==
  Flatten([r \in 1..n |->
             [k \in 1..(NumLayers + 1 - r) |-> [round |-> r, agg |-> r, k |-> k]]])

\* C9: round r of the reduction uses aggregator r of the stack and no other,
\* applies it to every adjacent pair of the current list in increasing k, and
\* so makes L + 1 - r calls (rounds counted from 1).
C9_RoundOrder ==
  /\ Len(agg_calls) <= Len(ExpectedCalls(NumLayers))
  /\ agg_calls = SubSeq(ExpectedCalls(NumLayers), 1, Len(agg_calls))
  /\ InReduction => agg_calls = ExpectedCalls(round - 1)
  /\ ret.kind = "value" => agg_calls = ExpectedCalls(NumLayers)

C9_Witness ==
  /\ ForwardReturned
  /\ NumLayers = 2
  /\ agg_calls = <<[round |-> 1, agg |-> 1, k |-> 1], [round |-> 1, agg |-> 1, k |-> 2],
                   [round |-> 2, agg |-> 2, k |-> 1]>>

\* the feature row an embedding row stands for
RECURSIVE Root(_)
Root(row) == IF row.op = "feat" THEN row ELSE Root(row.x)

\* C10: hop k calls sampler k once with n_samples = sample_count[k] on the
\* current frontier (the query ids, then the previous hop's output); in every
\* reduction round output row i of the pair (level k, level k+1) pools exactly
\* rows (i-1)*s[k]+1 .. i*s[k] of level k+1, which stand for the ids the hop-k
\* sampler emitted for the id at row i of level k.
C10_SampleAndPool ==
  /\ [](/\ Len(sampler_calls) <= NumLayers
        /\ (pc = "sample" => Len(sampler_calls) = hop - 1)
        /\ (InReduction => Len(sampler_calls) = NumLayers)
        /\ \A k \in 1..Len(sampler_calls) :
             /\ sampler_calls[k].fn = k
             /\ sampler_calls[k].n_samples = layer_specs[k].n_samples
             /\ sampler_calls[k].ids =
                  IF k = 1 THEN ids ELSE sampler_calls[k - 1].result.out)
  /\ [][ (pc = "reduce" /\ round' = round + 1 /\ contract_ok) =>
           \A k \in 1..Len(all_feats') :
             \A i \in 1..Size0(all_feats[k]) :
               LET s == layer_specs[k].n_samples
                   row == all_feats'[k].rows[i]
               IN  /\ row.x = all_feats[k].rows[i]
                   /\ row.neibs = SubSeq(all_feats[k + 1].rows, (i - 1) * s + 1, i * s)
                   /\ \A j \in 1..s :
                        Root(row.neibs[j]) =
                          features[sampler_calls[k].result.out[(i - 1) * s + j]] ]_vars

\* the second round of a two-layer model with sample counts [2, 3]
C10_Witness ==
  /\ InReduction
  /\ contract_ok
  /\ round = 3
  /\ Len(ids) = 2
  /\ [k \in 1..NumLayers |-> layer_specs[k].n_samples] = <<2, 3>>
  /\ Len(all_feats[1].rows[1].neibs) = 2
  /\ Len(all_feats[1].rows[1].x.neibs) = 2
  /\ Len(all_feats[1].rows[1].neibs[1].neibs) = 3

====
